---- MODULE Spec2Model ----
(***************************************************************************)
(* Model of the L'Oreal chat client (script.js, final revision).           *)
(*                                                                         *)
(* The page is a single-threaded event loop.  Every action below is one    *)
(* run-to-completion task of that loop: a DOM event handler, or the        *)
(* continuation of handleSend/getChatCompletion after one of its awaits.   *)
(* Text is a sequence of string pieces (single characters for what the     *)
(* user types), so that trim() and the template literals are computed.     *)
(* The DOM elements #chatForm, #userInput, #sendBtn and #chatWindow are    *)
(* taken to exist, as handleSend dereferences them without a guard.        *)
(***************************************************************************)
EXTENDS Integers, Sequences, FiniteSets, TLC

(* ---- bounds ---- *)
MaxCycles == 2

(* ---- values the environment can supply ---- *)
Inputs == {<<>>, <<" ", " ">>, <<" ", "a">>, <<" ", "a", " ", "b", " ">>}
Statuses == {200, 500}
Missing == <<"undefined">>
ErrTexts == {<<"internal error">>}
Replies == {<<>>, <<" ", "r", " ">>}
Contents == Replies \cup {Missing}

(* ---- program constants ---- *)
SeedSystemMessage ==
  [role |-> "system", content |-> <<"You are a helpful assistant specialized in L'Oreal products">>]
Model == "gpt-4o"
TypingText == <<".", ".", ".">>
FetchFailedMessage == <<"Failed to fetch">>
BodyFailedMessage == <<"Unexpected end of JSON input">>
NoAssistantMessage == <<"No assistant message found in API response.">>

VARIABLES
  messages,         \* the messages array
  chat,             \* children of chatContainer, in document order
  inputValue,       \* userInput.value
  sendBtnDisabled,  \* sendBtn.disabled
  cycles,           \* handleSend activations suspended at an await
  requests,         \* history: body of every fetch() issued, in issue order
  settled,          \* history: activations that ran their finally block
  sendTick,         \* history: flips at every invocation of handleSend
  delivered         \* history: what the network handed to the cycle settled last

vars == <<messages, chat, inputValue, sendBtnDisabled, cycles, requests, settled, sendTick,
          delivered>>

(* ---- String.prototype.trim ---- *)
IsSpace(c) == c = " "

RECURSIVE TrimLeft(_)
TrimLeft(s) == IF s = <<>> THEN s
               ELSE IF IsSpace(Head(s)) THEN TrimLeft(Tail(s)) ELSE s

\* trimStart() in place of trim()
TrimRightNone(s) == s

RECURSIVE TrimRight(_)
TrimRight(s) == IF s = <<>> THEN s
                ELSE IF IsSpace(s[Len(s)]) THEN TrimRight(SubSeq(s, 1, Len(s) - 1)) ELSE s

Trim(s) == TrimRight(TrimLeft(s))

(* ---- addMessage(role, text): the element appended to chatContainer ---- *)
Bubble(role, text) ==
  [cls    |-> IF role = "user" THEN "user" ELSE "ai",
   typing |-> FALSE,
   id     |-> 0,
   label  |-> IF role = "user" THEN "User: " ELSE "Assistant: ",
   text   |-> text]

\* the element is put first in the container (prepend for appendChild)
addMessagePrepend(c, role, text) == <<Bubble(role, text)>> \o c

addMessage(c, role, text) == Append(c, Bubble(role, text))

(* ---- the typing indicator built by handleSend ---- *)
TypingEl(id) ==
  [cls |-> "ai", typing |-> TRUE, id |-> id, label |-> "Assistant: ", text |-> TypingText]

\* removes every element of class "typing" instead of this cycle's own
RemoveAllTyping(c, id) ==
  LET Keep(e) == ~e.typing IN SelectSeq(c, Keep)

(* typingEl.remove() *)
RemoveTyping(c, id) ==
  LET Keep(e) == ~(e.typing /\ e.id = id) IN SelectSeq(c, Keep)

(* ---- getChatCompletion ---- *)
\* sends the newest message alone, without the conversation
RequestBodyLastOnly(convMessages) ==
  [model |-> Model, messages |-> <<convMessages[Len(convMessages)]>>]

RequestBody(convMessages) == [model |-> Model, messages |-> convMessages]

RespOk(status) == status >= 200 /\ status <= 299

StatusText(status) == <<ToString(status)>>

\* the response body is left out of the message
ApiFailedMessageNoBody(status, errText) ==
  <<"API request failed: ">> \o StatusText(status)

ApiFailedMessage(status, errText) ==
  <<"API request failed: ">> \o StatusText(status) \o <<" ">> \o errText

ErrorText(msg) == <<"Error: ">> \o msg

\* only a missing field is rejected (=== undefined for !assistantContent)
FalsyMissingOnly(content) == content = Missing

\* !assistantContent : undefined and the empty string are both falsy
Falsy(content) == content = Missing \/ content = <<>>

Init ==
  /\ messages = <<SeedSystemMessage>>
  /\ chat = <<>>
  /\ inputValue = <<>>
  /\ sendBtnDisabled = FALSE
  /\ cycles = {}
  /\ requests = <<>>
  /\ settled = <<>>
  /\ sendTick = FALSE
  /\ delivered = [kind |-> "none", status |-> 0, body |-> <<>>]

(* ---- the user edits the input field, which is never disabled ---- *)
EditInput ==
  \E v \in Inputs :
    /\ v # inputValue
    /\ inputValue' = v
    /\ UNCHANGED <<messages, chat, sendBtnDisabled, cycles, requests, settled, sendTick,
                   delivered>>

\* the empty-input guard left out
StartsCycleAlways(text) == TRUE

(* ---- handleSend up to its first suspension (await fetch) ---- *)
StartsCycle(text) == text # <<>>

handleSend ==
  LET text == Trim(inputValue)
      id == Len(requests) + 1
  IN IF ~StartsCycle(text)
     THEN /\ sendTick' = ~sendTick
          /\ UNCHANGED <<messages, chat, inputValue, sendBtnDisabled, cycles, requests, settled,
                         delivered>>
     ELSE /\ Len(requests) < MaxCycles
          /\ messages' = Append(messages, [role |-> "user", content |-> text])
          /\ chat' = Append(addMessage(chat, "user", text), TypingEl(id))
          /\ inputValue' = <<>>
          /\ sendBtnDisabled' = TRUE
          /\ requests' = Append(requests, RequestBody(messages'))
          /\ cycles' = cycles \cup {[id |-> id, pc |-> "fetch", status |-> 0]}
          /\ sendTick' = ~sendTick
          /\ UNCHANGED <<settled, delivered>>

(* the form's submit event: raised by the send button, which the browser   *)
(* does not activate while it is disabled                                  *)
SubmitEnabled == ~sendBtnDisabled

Submit ==
  /\ SubmitEnabled
  /\ handleSend

(* the keydown listener on the input *)
SendsOnKey(key, shiftKey) == key = "Enter" /\ ~shiftKey

Keydown ==
  \E key \in {"Enter", "a"}, shiftKey \in BOOLEAN :
    IF SendsOnKey(key, shiftKey)
    THEN handleSend
    ELSE UNCHANGED vars

(* ---- continuations ---- *)
\* the button is re-enabled on the success path only (no finally block)
FinallyOnSuccessOnly(c, outcome) ==
  /\ sendBtnDisabled' = (outcome # "ok" /\ sendBtnDisabled)
  /\ cycles' = cycles \ {c}
  /\ settled' = Append(settled, [id |-> c.id, outcome |-> outcome])

Finally(c, outcome) ==
  /\ sendBtnDisabled' = FALSE
  /\ cycles' = cycles \ {c}
  /\ settled' = Append(settled, [id |-> c.id, outcome |-> outcome])

\* the failed turn is rolled back: the newest message is popped
CatchRollback(c, msg, kind) ==
  /\ chat' = addMessage(RemoveTyping(chat, c.id), "assistant", ErrorText(msg))
  /\ messages' = SubSeq(messages, 1, Len(messages) - 1)
  /\ Finally(c, kind)
  /\ UNCHANGED <<inputValue, requests, sendTick>>

\* the error text is pushed to the transcript like a reply
CatchPushesError(c, msg, kind) ==
  /\ chat' = addMessage(RemoveTyping(chat, c.id), "assistant", ErrorText(msg))
  /\ messages' = Append(messages, [role |-> "assistant", content |-> ErrorText(msg)])
  /\ Finally(c, kind)
  /\ UNCHANGED <<inputValue, requests, sendTick>>

\* the failed request is issued once more
CatchRetries(c, msg, kind) ==
  /\ chat' = addMessage(RemoveTyping(chat, c.id), "assistant", ErrorText(msg))
  /\ requests' = Append(requests, requests[c.id])
  /\ Finally(c, kind)
  /\ UNCHANGED <<messages, inputValue, sendTick>>

\* catch (err) { typingEl.remove(); addMessage("assistant", `Error: ...`) } finally
Catch(c, msg, kind) ==
  /\ chat' = addMessage(RemoveTyping(chat, c.id), "assistant", ErrorText(msg))
  /\ Finally(c, kind)
  /\ UNCHANGED <<messages, inputValue, requests, sendTick>>

\* the reply is put at the front of the array (unshift for push)
SucceedUnshift(c, reply) ==
  /\ chat' = addMessage(RemoveTyping(chat, c.id), "assistant", reply)
  /\ messages' = <<[role |-> "assistant", content |-> reply]>> \o messages
  /\ Finally(c, "ok")
  /\ UNCHANGED <<inputValue, requests, sendTick>>

\* the reply is trimmed before it is stored
SucceedTrimmed(c, reply) ==
  /\ chat' = addMessage(RemoveTyping(chat, c.id), "assistant", reply)
  /\ messages' = Append(messages, [role |-> "assistant", content |-> Trim(reply)])
  /\ Finally(c, "ok")
  /\ UNCHANGED <<inputValue, requests, sendTick>>

\* reply returned: typingEl.remove(); addMessage; messages.push; finally
Succeed(c, reply) ==
  /\ chat' = addMessage(RemoveTyping(chat, c.id), "assistant", reply)
  /\ messages' = Append(messages, [role |-> "assistant", content |-> reply])
  /\ Finally(c, "ok")
  /\ UNCHANGED <<inputValue, requests, sendTick>>

\* fetch() rejects: transport failure
FetchReject ==
  \E c \in cycles :
    /\ c.pc = "fetch"
    /\ Catch(c, FetchFailedMessage, "transport")
    /\ delivered' = [kind |-> "none", status |-> 0, body |-> <<>>]

\* fetch() resolves with a response; the body is read at the next await
FetchResolve ==
  \E c \in cycles, status \in Statuses :
    /\ c.pc = "fetch"
    /\ cycles' = (cycles \ {c}) \cup
                 {[c EXCEPT !.pc = IF RespOk(status) THEN "json" ELSE "text",
                            !.status = status]}
    /\ UNCHANGED <<messages, chat, inputValue, sendBtnDisabled, requests, settled, sendTick,
                   delivered>>

\* resp.text() resolves for a non-2xx response
TextResolve ==
  \E c \in cycles, errText \in ErrTexts :
    /\ c.pc = "text"
    /\ Catch(c, ApiFailedMessage(c.status, errText), "status")
    /\ delivered' = [kind |-> "text", status |-> c.status, body |-> errText]

\* resp.json() resolves
JsonResolve ==
  \E c \in cycles, content \in Contents :
    /\ c.pc = "json"
    /\ IF Falsy(content)
       THEN Catch(c, NoAssistantMessage, "noReply")
       ELSE Succeed(c, content)
    /\ delivered' = [kind |-> "json", status |-> c.status, body |-> content]

\* resp.text() / resp.json() rejects: the body cannot be read or parsed
BodyReject ==
  \E c \in cycles :
    /\ c.pc \in {"text", "json"}
    /\ Catch(c, BodyFailedMessage, "body")
    /\ delivered' = [kind |-> "none", status |-> c.status, body |-> <<>>]

Next ==
  \/ EditInput
  \/ Submit
  \/ Keydown
  \/ FetchReject
  \/ FetchResolve
  \/ TextResolve
  \/ JsonResolve
  \/ BodyReject

Spec == Init /\ [][Next]_vars

\* every issued request eventually settles: the awaits of getChatCompletion
\* are resumed by the event loop once the network has answered or failed
NetworkStep ==
  \/ FetchReject
  \/ FetchResolve
  \/ TextResolve
  \/ JsonResolve
  \/ BodyReject

FairSpec == Spec /\ WF_vars(NetworkStep)

(***************************************************************************)
(* Properties                                                              *)
(***************************************************************************)
IsPrefix(s, t) == Len(s) <= Len(t) /\ SubSeq(t, 1, Len(s)) = s

WhitespaceOnly(s) == \A i \in 1..Len(s) : s[i] = " "

\* t is s without its leading and trailing spaces
TrimmedOf(s, t) ==
  \E i \in 1..Len(s), j \in 1..Len(s) :
    /\ i <= j
    /\ t = SubSeq(s, i, j)
    /\ s[i] # " " /\ s[j] # " "
    /\ \A k \in 1..Len(s) : (k < i \/ k > j) => s[k] = " "

SendInvoked == sendTick' # sendTick
Issues == Len(requests') = Len(requests) + 1
Settles == Len(settled') = Len(settled) + 1
LastSettled == settled'[Len(settled')]
FailureKinds == {"transport", "status", "noReply", "body"}
IsErrorText(t) == Len(t) >= 1 /\ t[1] = "Error: "
IsErrorBubble(e) == ~e.typing /\ e.cls = "ai" /\ IsErrorText(e.text)
TypingCount(id) == Cardinality({i \in 1..Len(chat) : chat[i].typing /\ chat[i].id = id})
Outstanding(id) == \E c \in cycles : c.id = id

\* C1: at most one completion request is outstanding at any time.
C1_AtMostOneOutstanding == Cardinality(cycles) <= 1

\* C2: whenever a request is outstanding, the send button is disabled.
C2_OutstandingImpliesDisabled == cycles # {} => sendBtnDisabled

\* C3: sendBtn.disabled is false before the first send, false right after
\* every settlement (success or any failure), and never true when no cycle
\* remains to settle.
C3_PendingReleased ==
  /\ [](cycles = {} => ~sendBtnDisabled)
  /\ [][Settles => ~sendBtnDisabled']_vars

C3_Witness ==
  /\ settled # <<>>
  /\ settled[Len(settled)].outcome \in FailureKinds
  /\ cycles = {}
  /\ ~sendBtnDisabled

\* C4: the first message is the seed system message and it is the only
\* system-role message of the transcript.
C4_SeedFirstAndOnly ==
  /\ Len(messages) >= 1
  /\ messages[1] = SeedSystemMessage
  /\ \A i \in 2..Len(messages) : messages[i].role # "system"

C4_Witness ==
  /\ Len(messages) >= 4
  /\ \E i \in 1..Len(settled) : settled[i].outcome \in FailureKinds
  /\ \E i \in 1..Len(settled) : settled[i].outcome = "ok"

\* C5: the transcript is append-only: before every step it is a prefix of
\* the transcript after the step.
C5_AppendOnly == [][IsPrefix(messages, messages')]_vars

C5_Witness ==
  /\ Len(messages) = 5
  /\ messages[5].role = "assistant"
  /\ messages[3].role = "assistant"

\* C6: handleSend on an empty or whitespace-only input changes nothing and
\* issues no request.
C6_EmptyInputNoOp ==
  [][SendInvoked /\ WhitespaceOnly(inputValue)
       => UNCHANGED <<messages, chat, inputValue, sendBtnDisabled, cycles, requests, settled>>]_vars

C6_Witness ==
  /\ sendTick
  /\ requests = <<>>
  /\ inputValue # <<>>
  /\ WhitespaceOnly(inputValue)

\* C7: a handleSend with non-empty trimmed input appends exactly one user
\* message carrying the trimmed text; a successful settlement appends
\* exactly one assistant message, after that cycle's user message.
C7_UserThenAssistant ==
  /\ [][SendInvoked /\ ~WhitespaceOnly(inputValue)
          => /\ Len(messages') = Len(messages) + 1
             /\ IsPrefix(messages, messages')
             /\ messages'[Len(messages')].role = "user"
             /\ TrimmedOf(inputValue, messages'[Len(messages')].content)]_vars
  /\ [][Settles /\ LastSettled.outcome = "ok"
          => /\ Len(messages') = Len(messages) + 1
             /\ IsPrefix(messages, messages')
             /\ messages'[Len(messages')].role = "assistant"
             /\ LET p == Len(requests[LastSettled.id].messages)
                IN /\ p < Len(messages')
                   /\ messages'[p] = requests[LastSettled.id].messages[p]
                   /\ messages'[p].role = "user"]_vars

C7_Witness ==
  /\ Len(settled) = 2
  /\ settled[1] = [id |-> 2, outcome |-> "ok"]
  /\ settled[2] = [id |-> 1, outcome |-> "ok"]
  /\ messages[3].content = <<"a", " ", "b">>

\* C8: a failed settlement leaves the transcript as it was (the user message
\* is retained, no assistant message is added); the error text is rendered
\* in the chat window but never enters the transcript or a request payload.
C8_FailureLeavesTranscript ==
  /\ [][Settles /\ LastSettled.outcome \in FailureKinds
          => /\ messages' = messages
             /\ requests' = requests
             /\ messages[Len(requests[LastSettled.id].messages)].role = "user"
             /\ IsErrorBubble(chat'[Len(chat')])]_vars
  /\ [](\A i \in 1..Len(messages) : ~IsErrorText(messages[i].content))
  /\ [](\A k \in 1..Len(requests) : \A i \in 1..Len(requests[k].messages) :
           ~IsErrorText(requests[k].messages[i].content))

C8_Witness ==
  \E i \in 1..Len(chat), j \in 1..Len(chat) :
    /\ i < j
    /\ IsErrorBubble(chat[i])
    /\ chat[j].cls = "user"
    /\ Len(requests) = 2

\* C9: each request carries the transcript as it stands when the request is
\* issued (seed first, the just-appended user message last); later messages
\* are not part of that payload.
C9_PayloadIsSnapshot ==
  /\ [][Issues
          => /\ requests'[Len(requests')].model = Model
             /\ requests'[Len(requests')].messages = messages'
             /\ IsPrefix(messages, messages')
             /\ Len(messages') = Len(messages) + 1
             /\ messages'[1] = SeedSystemMessage
             /\ messages'[Len(messages')].role = "user"]_vars
  /\ [][IsPrefix(requests, requests')]_vars

C9_Witness ==
  /\ Len(requests) = 2
  /\ Len(requests[2].messages) = 4
  /\ requests[2].messages[3].role = "assistant"
  /\ Len(messages) = 5

\* C10: a cycle's typing indicator is in the chat window exactly while its
\* request is outstanding; the number of typing indicators equals the number
\* of outstanding requests, and none is in the transcript.
C10_TypingWhileOutstanding ==
  /\ \A id \in 1..Len(requests) : TypingCount(id) = (IF Outstanding(id) THEN 1 ELSE 0)
  /\ Cardinality({i \in 1..Len(chat) : chat[i].typing}) = Cardinality(cycles)
  /\ \A i \in 1..Len(messages) : messages[i].content # TypingText

C10_Witness ==
  /\ Cardinality(cycles) = 1
  /\ Len(settled) = 1
  /\ settled[1].id = 1
  /\ settled[1].outcome \in FailureKinds
  /\ \E i \in 1..Len(chat) : chat[i].typing /\ chat[i].id = 2

RoleCount(seq, role) == Cardinality({i \in 1..Len(seq) : seq[i].role = role})
FailedCount == Cardinality({i \in 1..Len(settled) : settled[i].outcome \in FailureKinds})
Contains(t, sub) ==
  \E i \in 0..(Len(t) - Len(sub)) : SubSeq(t, i + 1, i + Len(sub)) = sub

\* C11: if every issued request eventually settles, every state in which
\* the send button is disabled is followed by one in which it is enabled.
C11_LockReleased == sendBtnDisabled ~> ~sendBtnDisabled

C11_Witness ==
  /\ sendBtnDisabled
  /\ \E i \in 1..Len(settled) : settled[i].outcome \in FailureKinds

\* C12: no automatic retry: a handleSend with non-empty trimmed input
\* issues exactly one request, nothing else issues one, and the number of
\* requests issued equals the number of user messages in the transcript.
C12_NoRetry ==
  /\ [](Len(requests) = RoleCount(messages, "user"))
  /\ [][SendInvoked /\ ~WhitespaceOnly(inputValue) => Issues]_vars
  /\ [][~SendInvoked => requests' = requests]_vars

C12_Witness ==
  /\ Len(requests) = 2
  /\ settled # <<>>
  /\ \A i \in 1..Len(settled) : settled[i].outcome \in FailureKinds
  /\ Len(settled) = 2

\* C13 (as claimed): for every 2xx response whose reply field is a string r,
\* whatever r is, the cycle appends an assistant message with content r.
C13_AnyStringStored ==
  [][Settles /\ delivered'.kind = "json" /\ RespOk(delivered'.status)
       /\ delivered'.body \in Replies
       => messages' = Append(messages, [role |-> "assistant", content |-> delivered'.body])]_vars

\* C13 (amended): for every 2xx response whose reply field is a non-empty
\* string r, the cycle appends an assistant message with content exactly r.
C13_NonEmptyStoredVerbatim ==
  [][Settles /\ delivered'.kind = "json" /\ RespOk(delivered'.status)
       /\ delivered'.body \in Replies /\ delivered'.body # <<>>
       => messages' = Append(messages, [role |-> "assistant", content |-> delivered'.body])]_vars

C13_Witness ==
  /\ settled # <<>>
  /\ settled[Len(settled)].outcome = "ok"
  /\ delivered.body = <<" ", "r", " ">>
  /\ messages[Len(messages)] = [role |-> "assistant", content |-> <<" ", "r", " ">>]

\* C14: for a non-2xx status s with body text b, the error bubble of the
\* cycle contains s and b, has assistant styling, and the transcript gains
\* no assistant message.
C14_StatusErrorBubble ==
  [][Settles /\ delivered'.kind = "text"
       => /\ ~RespOk(delivered'.status)
          /\ LET e == chat'[Len(chat')]
             IN /\ e.cls = "ai"
                /\ e.label = "Assistant: "
                /\ ~e.typing
                /\ Contains(e.text, <<ToString(delivered'.status)>>)
                /\ Contains(e.text, delivered'.body)
          /\ Len(chat') = Len(chat)
          /\ messages' = messages]_vars

C14_Witness ==
  /\ delivered = [kind |-> "text", status |-> 500, body |-> <<"internal error">>]
  /\ chat # <<>>
  /\ Contains(chat[Len(chat)].text, <<"500">>)
  /\ Contains(chat[Len(chat)].text, <<"internal error">>)
  /\ RoleCount(messages, "assistant") = 0

\* C15: every user and assistant message of the transcript has non-empty
\* content.
C15_NonEmptyContent ==
  \A i \in 1..Len(messages) :
    messages[i].role \in {"user", "assistant"} => messages[i].content # <<>>

C15_Witness ==
  /\ delivered.kind = "json"
  /\ delivered.body = <<>>
  /\ settled[Len(settled)].outcome = "noReply"
  /\ sendTick
  /\ Len(messages) = 2

\* C16: user messages = assistant messages + outstanding requests + cycles
\* settled in failure, and every prefix of the transcript has at least as
\* many user as assistant messages.
C16_Accounting ==
  /\ RoleCount(messages, "user")
       = RoleCount(messages, "assistant") + Cardinality(cycles) + FailedCount
  /\ \A n \in 1..Len(messages) :
       RoleCount(SubSeq(messages, 1, n), "user") >= RoleCount(SubSeq(messages, 1, n), "assistant")

\* a failed cycle followed by a resend: two consecutive user messages
C16_Witness ==
  /\ Len(messages) = 3
  /\ messages[2].role = "user"
  /\ messages[3].role = "user"
  /\ Len(settled) = 1
  /\ settled[1].id = 1
  /\ settled[1].outcome \in FailureKinds
  /\ Outstanding(2)

\* C17: the bubbles of the chat window, without typing indicators and error
\* bubbles, are the transcript without its seed message: same roles, same
\* texts, same order, in every state.
Rendered ==
  LET Keep(e) == ~e.typing /\ ~IsErrorBubble(e)
      kept == SelectSeq(chat, Keep)
  IN [i \in 1..Len(kept) |->
        [role |-> IF kept[i].cls = "user" THEN "user" ELSE "assistant",
         content |-> kept[i].text]]

C17_ChatAgreesWithTranscript == Rendered = Tail(messages)

C17_Witness ==
  \E i \in 1..Len(chat), j \in 1..Len(chat) :
    /\ i < j
    /\ IsErrorBubble(chat[i])
    /\ chat[j].cls = "ai" /\ ~chat[j].typing /\ ~IsErrorBubble(chat[j])
    /\ Len(messages) = 4

====
